---- MODULE Spec2Model ----
(***************************************************************************)
(* The Cipher facade of libQtShadowsocks (lib/cipher.cpp): the method      *)
(* registry, the construction-time dispatch to one of three backends, the  *)
(* uniform update operation and the static helpers, as a state machine     *)
(* driven by a client that constructs instances and calls their methods.   *)
(*                                                                         *)
(* Byte strings are sequences of small integers.  The primitives of the    *)
(* crypto provider (Botan) and of the dedicated RC4 and ChaCha engines are *)
(* stand-ins with the same shape as the real ones: a keystream indexed by  *)
(* position for the stream ciphers, a feedback register for the CFB modes. *)
(***************************************************************************)
EXTENDS Integers, Sequences, FiniteSets, TLC

VARIABLES
    botan2,         \* build variant: TRUE when compiled with USE_BOTAN2
    noDebug,        \* build variant: TRUE when compiled with QT_NO_DEBUG
    provided,       \* algorithm names the crypto provider can build a filter for
    cipher,         \* the Cipher instance the client holds, or NoCipher
    peer,           \* a second instance (the other end of a relay), or NoCipher
    args,           \* constructor arguments of `cipher` (history)
    fed,            \* concatenation of all data passed to cipher.update (history)
    out,            \* concatenation of all outputs of cipher.update (history)
    echo,           \* concatenation of all outputs of peer.update (history)
    calls,          \* number of update calls made on `cipher`
    last,           \* what the last operation did and returned
    aborted         \* the process was ended by qFatal / a failed Q_ASSERT

vars == <<botan2, noDebug, provided, cipher, peer, args, fed, out, echo, calls, last, aborted>>

----------------------------------------------------------------------------
(* Bounds of the model. *)

\* bits of a model byte
ByteBits == 1
\* bytes passed to the update calls of one instance, in total
MaxFed == 2
\* update calls made on one instance
MaxUpdates == 2

ByteMod == 2 ^ ByteBits
Byte == 0 .. (ByteMod - 1)

\* the byte strings of length at most n
Bytes(n) == UNION {[1 .. k -> Byte] : k \in 0 .. n}

\* what the model lets a random generator draw: all bits clear, all bits set
Draws == {0, ByteMod - 1}

\* n bytes of the same value
Filled(n, b) == [i \in 1 .. n |-> b]

NoCipher == [null |-> TRUE]

\* the constructor arguments before any instance was built
NoArgs == [method |-> "", key |-> <<>>, iv |-> <<>>, encrypt |-> TRUE]

\* what the last call did: its name, how it ended, what it returned
Result(op, outcome, error, value, arg, consulted, helpers, rng) ==
    [op |-> op, outcome |-> outcome, error |-> error, value |-> value, arg |-> arg,
     consulted |-> consulted, helpers |-> helpers, rng |-> rng]

----------------------------------------------------------------------------
(* Strings.  std::string::find works on characters, so each string the     *)
(* model uses is spelled out; Chars gives the characters of a string.      *)

Chars(s) ==
    CASE s = "aes-128-cfb" -> <<"a", "e", "s", "-", "1", "2", "8", "-", "c", "f", "b">>
      [] s = "AES-128/CFB" -> <<"A", "E", "S", "-", "1", "2", "8", "/", "C", "F", "B">>
      [] s = "aes-128-ctr" -> <<"a", "e", "s", "-", "1", "2", "8", "-", "c", "t", "r">>
      [] s = "AES-128/CTR-BE" -> <<"A", "E", "S", "-", "1", "2", "8", "/", "C", "T", "R", "-", "B", "E">>
      [] s = "aes-192-cfb" -> <<"a", "e", "s", "-", "1", "9", "2", "-", "c", "f", "b">>
      [] s = "AES-192/CFB" -> <<"A", "E", "S", "-", "1", "9", "2", "/", "C", "F", "B">>
      [] s = "aes-192-ctr" -> <<"a", "e", "s", "-", "1", "9", "2", "-", "c", "t", "r">>
      [] s = "AES-192/CTR-BE" -> <<"A", "E", "S", "-", "1", "9", "2", "/", "C", "T", "R", "-", "B", "E">>
      [] s = "aes-256-cfb" -> <<"a", "e", "s", "-", "2", "5", "6", "-", "c", "f", "b">>
      [] s = "AES-256/CFB" -> <<"A", "E", "S", "-", "2", "5", "6", "/", "C", "F", "B">>
      [] s = "aes-256-ctr" -> <<"a", "e", "s", "-", "2", "5", "6", "-", "c", "t", "r">>
      [] s = "AES-256/CTR-BE" -> <<"A", "E", "S", "-", "2", "5", "6", "/", "C", "T", "R", "-", "B", "E">>
      [] s = "aes-256-gcm" -> <<"a", "e", "s", "-", "2", "5", "6", "-", "g", "c", "m">>
      [] s = "AES-128/GCM" -> <<"A", "E", "S", "-", "1", "2", "8", "/", "G", "C", "M">>
      [] s = "bf-cfb" -> <<"b", "f", "-", "c", "f", "b">>
      [] s = "Blowfish/CFB" -> <<"B", "l", "o", "w", "f", "i", "s", "h", "/", "C", "F", "B">>
      [] s = "camellia-128-cfb" -> <<"c", "a", "m", "e", "l", "l", "i", "a", "-", "1", "2", "8", "-", "c", "f", "b">>
      [] s = "Camellia-128/CFB" -> <<"C", "a", "m", "e", "l", "l", "i", "a", "-", "1", "2", "8", "/", "C", "F", "B">>
      [] s = "camellia-192-cfb" -> <<"c", "a", "m", "e", "l", "l", "i", "a", "-", "1", "9", "2", "-", "c", "f", "b">>
      [] s = "Camellia-192/CFB" -> <<"C", "a", "m", "e", "l", "l", "i", "a", "-", "1", "9", "2", "/", "C", "F", "B">>
      [] s = "camellia-256-cfb" -> <<"c", "a", "m", "e", "l", "l", "i", "a", "-", "2", "5", "6", "-", "c", "f", "b">>
      [] s = "Camellia-256/CFB" -> <<"C", "a", "m", "e", "l", "l", "i", "a", "-", "2", "5", "6", "/", "C", "F", "B">>
      [] s = "cast5-cfb" -> <<"c", "a", "s", "t", "5", "-", "c", "f", "b">>
      [] s = "CAST-128/CFB" -> <<"C", "A", "S", "T", "-", "1", "2", "8", "/", "C", "F", "B">>
      [] s = "chacha20" -> <<"c", "h", "a", "c", "h", "a", "2", "0">>
      [] s = "ChaCha" -> <<"C", "h", "a", "C", "h", "a">>
      [] s = "chacha20-ietf" -> <<"c", "h", "a", "c", "h", "a", "2", "0", "-", "i", "e", "t", "f">>
      [] s = "des-cfb" -> <<"d", "e", "s", "-", "c", "f", "b">>
      [] s = "DES/CFB" -> <<"D", "E", "S", "/", "C", "F", "B">>
      [] s = "idea-cfb" -> <<"i", "d", "e", "a", "-", "c", "f", "b">>
      [] s = "IDEA/CFB" -> <<"I", "D", "E", "A", "/", "C", "F", "B">>
      [] s = "rc2-cfb" -> <<"r", "c", "2", "-", "c", "f", "b">>
      [] s = "RC2/CFB" -> <<"R", "C", "2", "/", "C", "F", "B">>
      [] s = "rc4-md5" -> <<"r", "c", "4", "-", "m", "d", "5">>
      [] s = "RC4-MD5" -> <<"R", "C", "4", "-", "M", "D", "5">>
      [] s = "salsa20" -> <<"s", "a", "l", "s", "a", "2", "0">>
      [] s = "Salsa20" -> <<"S", "a", "l", "s", "a", "2", "0">>
      [] s = "seed-cfb" -> <<"s", "e", "e", "d", "-", "c", "f", "b">>
      [] s = "SEED/CFB" -> <<"S", "E", "E", "D", "/", "C", "F", "B">>
      [] s = "serpent-256-cfb" -> <<"s", "e", "r", "p", "e", "n", "t", "-", "2", "5", "6", "-", "c", "f", "b">>
      [] s = "Serpent/CFB" -> <<"S", "e", "r", "p", "e", "n", "t", "/", "C", "F", "B">>
      [] s = "rc4" -> <<"r", "c", "4">>
      [] s = "bogus-cipher" -> <<"b", "o", "g", "u", "s", "-", "c", "i", "p", "h", "e", "r">>

\* s[i .. i+Len(sub)-1] = sub
MatchesAt(s, sub, i) ==
    /\ i + Len(sub) - 1 <= Len(s)
    /\ \A j \in 1 .. Len(sub) : s[i + j - 1] = sub[j]

\* std::string::find(sub) != npos
find(s, sub) == \E i \in 1 .. Len(Chars(s)) : MatchesAt(Chars(s), Chars(sub), i)

----------------------------------------------------------------------------
(* The method registry. *)

Info(internalName, keyLen, ivLen, type, saltLen, tagLen) ==
    [internalName |-> internalName, keyLen |-> keyLen, ivLen |-> ivLen,
     type |-> type, saltLen |-> saltLen, tagLen |-> tagLen]

Row(name, info) == [name |-> name, info |-> info]

\* the rows every build has, in key order
StreamRows ==
    <<
      Row("aes-128-cfb", Info("AES-128/CFB", 16, 16, "STREAM", 0, 0)),
      Row("aes-128-ctr", Info("AES-128/CTR-BE", 16, 16, "STREAM", 0, 0)),
      Row("aes-192-cfb", Info("AES-192/CFB", 24, 16, "STREAM", 0, 0)),
      Row("aes-192-ctr", Info("AES-192/CTR-BE", 24, 16, "STREAM", 0, 0)),
      Row("aes-256-cfb", Info("AES-256/CFB", 32, 16, "STREAM", 0, 0)),
      Row("aes-256-ctr", Info("AES-256/CTR-BE", 32, 16, "STREAM", 0, 0)),
      Row("bf-cfb", Info("Blowfish/CFB", 16, 8, "STREAM", 0, 0)),
      Row("camellia-128-cfb", Info("Camellia-128/CFB", 16, 16, "STREAM", 0, 0)),
      Row("camellia-192-cfb", Info("Camellia-192/CFB", 24, 16, "STREAM", 0, 0)),
      Row("camellia-256-cfb", Info("Camellia-256/CFB", 32, 16, "STREAM", 0, 0)),
      Row("cast5-cfb", Info("CAST-128/CFB", 16, 8, "STREAM", 0, 0)),
      Row("chacha20", Info("ChaCha", 32, 8, "STREAM", 0, 0)),
      Row("chacha20-ietf", Info("ChaCha", 32, 12, "STREAM", 0, 0)),
      Row("des-cfb", Info("DES/CFB", 8, 8, "STREAM", 0, 0)),
      Row("idea-cfb", Info("IDEA/CFB", 16, 8, "STREAM", 0, 0)),
      Row("rc2-cfb", Info("RC2/CFB", 16, 8, "STREAM", 0, 0)),
      Row("rc4-md5", Info("RC4-MD5", 16, 16, "STREAM", 0, 0)),
      Row("salsa20", Info("Salsa20", 32, 8, "STREAM", 0, 0)),
      Row("seed-cfb", Info("SEED/CFB", 16, 16, "STREAM", 0, 0)),
      Row("serpent-256-cfb", Info("Serpent/CFB", 32, 16, "STREAM", 0, 0))
    >>

\* the row only a USE_BOTAN2 build has
AeadRow == Row("aes-256-gcm", Info("AES-128/GCM", 32, 12, "AEAD", 32, 16))

\* cipherInfoMap as compiled: std::map keeps its rows in key order, which
\* puts "aes-256-gcm" after "aes-256-ctr"
CipherInfoMapOf(b2) ==
    IF b2 THEN SubSeq(StreamRows, 1, 6) \o <<AeadRow>> \o SubSeq(StreamRows, 7, Len(StreamRows))
    ELSE StreamRows

\* Cipher::cipherInfoMap, a const static member: the registry of this build
cipherInfoMap == CipherInfoMapOf(botan2)

\* variant of at: operator[] in its place, which finds every name and gives
\* an absent one a default-constructed value
at_default(map, method) ==
    IF \E i \in DOMAIN map : map[i].name = method
    THEN [found |-> TRUE, info |-> map[CHOOSE i \in DOMAIN map : map[i].name = method].info]
    ELSE [found |-> TRUE, info |-> [internalName |-> "", keyLen |-> 0, ivLen |-> 0,
                                    type |-> "STREAM", saltLen |-> 0, tagLen |-> 0]]

\* std::map::at: the row's value, or std::out_of_range
at(map, method) ==
    IF \E i \in DOMAIN map : map[i].name = method
    THEN [found |-> TRUE, info |-> map[CHOOSE i \in DOMAIN map : map[i].name = method].info]
    ELSE [found |-> FALSE, info |-> Info("", 0, 0, "STREAM", 0, 0)]

RegisteredNames(map) == {map[i].name : i \in DOMAIN map}

----------------------------------------------------------------------------
(* The crypto provider. *)

Algo(kind, keyLens, ivLens) == [kind |-> kind, keyLens |-> keyLens, ivLens |-> ivLens]

\* what the provider's cipher lookup builds for a name: the kind of filter
\* and the key and IV lengths the algorithm accepts
ProviderAlgo(name) ==
    CASE name = "AES-128/CFB"      -> Algo("CFB", {16}, {16})
      [] name = "AES-192/CFB"      -> Algo("CFB", {24}, {16})
      [] name = "AES-256/CFB"      -> Algo("CFB", {32}, {16})
      [] name = "AES-128/CTR-BE"   -> Algo("STREAM", {16}, 0 .. 16)
      [] name = "AES-192/CTR-BE"   -> Algo("STREAM", {24}, 0 .. 16)
      [] name = "AES-256/CTR-BE"   -> Algo("STREAM", {32}, 0 .. 16)
      [] name = "AES-128/GCM"      -> Algo("AEAD", {16}, 1 .. 16)
      [] name = "Blowfish/CFB"     -> Algo("CFB", 1 .. 56, {8})
      [] name = "Camellia-128/CFB" -> Algo("CFB", {16}, {16})
      [] name = "Camellia-192/CFB" -> Algo("CFB", {24}, {16})
      [] name = "Camellia-256/CFB" -> Algo("CFB", {32}, {16})
      [] name = "CAST-128/CFB"     -> Algo("CFB", 11 .. 16, {8})
      [] name = "ChaCha"           -> Algo("STREAM", {16, 32}, {8, 12})
      [] name = "DES/CFB"          -> Algo("CFB", {8}, {8})
      [] name = "IDEA/CFB"         -> Algo("CFB", {16}, {8})
      [] name = "RC2/CFB"          -> Algo("CFB", 1 .. 32, {8})
      [] name = "RC4-MD5"          -> Algo("STREAM", {16}, {16})
      [] name = "Salsa20"          -> Algo("STREAM", {16, 32}, {8, 24})
      [] name = "SEED/CFB"         -> Algo("CFB", {16}, {16})
      [] name = "Serpent/CFB"      -> Algo("CFB", {16, 24, 32}, {16})
      [] OTHER                     -> Algo("NONE", {}, {})

InternalNames == {StreamRows[i].info.internalName : i \in DOMAIN StreamRows}
                     \cup {AeadRow.info.internalName}

\* the algorithms a provider of each generation ships; "RC4-MD5" is a name
\* of the registry only, and ChaCha and GCM come with the second generation
BaseAlgos(b2) ==
    IF b2 THEN InternalNames \ {"RC4-MD5"}
    ELSE InternalNames \ {"RC4-MD5", "ChaCha", "AES-128/GCM"}

\* the providers the model runs against: the full one, one that also knows
\* the registry's RC4 name, one built without a module
Profiles(b2) ==
    {BaseAlgos(b2), BaseAlgos(b2) \cup {"RC4-MD5"}, BaseAlgos(b2) \ {"IDEA/CFB"}}

\* the provider the instance-building runs use: one built without a module
BuildProfiles(b2) == {BaseAlgos(b2) \ {"IDEA/CFB"}}

RECURSIVE Weigh(_, _)
Weigh(s, i) == IF i > Len(s) THEN 0 ELSE i * (s[i] + 1) + Weigh(s, i + 1)

\* key schedule stand-in: a number drawn from the key material
Seed(s) == Weigh(s, 1)

\* keystream byte at a position
KS(seed, pos) == ((seed + 1) * (pos + 1) + (pos \div 2)) % ByteMod

\* block-cipher stand-in applied to the feedback register
BlockFn(seed, reg) == (seed + 3 * reg + 1) % ByteMod

RECURSIVE Xor(_, _)
Xor(a, b) ==
    IF a = 0 THEN b
    ELSE IF b = 0 THEN a
    ELSE (((a % 2) + (b % 2)) % 2) + 2 * Xor(a \div 2, b \div 2)

\* Botan::get_cipher(name, key, iv, direction): the keyed filter, or raised
get_cipher(prov, name, key, iv, dir) ==
    LET a == ProviderAlgo(name) IN
    IF name \in prov /\ Len(key) \in a.keyLens /\ Len(iv) \in a.ivLens
    THEN [raised |-> FALSE,
          filter |-> [kind |-> a.kind, seed |-> Seed(key) + 2 * Seed(iv), dir |-> dir,
                      pos |-> 0, reg |-> Seed(iv) % ByteMod]]
    ELSE [raised |-> TRUE, filter |-> NoCipher]

\* Botan::get_cipher(name, direction): an unkeyed filter, or raised
get_cipher_unkeyed(prov, name) == [raised |-> name \notin prov]

\* a CFB filter over data: <<output, register after>>
RECURSIVE CfbRun(_, _, _, _)
CfbRun(seed, dir, reg, data) ==
    IF data = <<>> THEN <<<<>>, reg>>
    ELSE LET o == Xor(Head(data), BlockFn(seed, reg))
             c == IF dir = "ENCRYPTION" THEN o ELSE Head(data)
             rest == CfbRun(seed, dir, c, Tail(data))
         IN <<<<o>> \o rest[1], rest[2]>>

\* Keyed_Filter::write: the filter after the data, and what it emits
FilterWrite(f, data) ==
    IF f.kind = "CFB"
    THEN LET r == CfbRun(f.seed, f.dir, f.reg, data)
         IN [filter |-> [f EXCEPT !.reg = r[2], !.pos = @ + Len(data)], emitted |-> r[1]]
    ELSE [filter |-> [f EXCEPT !.pos = @ + Len(data)],
          emitted |-> [i \in 1 .. Len(data) |-> Xor(data[i], KS(f.seed, f.pos + i - 1))]]

\* new Botan::Pipe(filter): no message yet
PipeNew(filter) == [filter |-> filter, msgs |-> <<>>]

\* Pipe::process_msg: start a message, write the data through the filter,
\* end the message; the filter keeps its state from message to message
process_msg(pipe, data) ==
    LET w == FilterWrite(pipe.filter, data)
    IN [filter |-> w.filter, msgs |-> Append(pipe.msgs, w.emitted)]

\* variant of LAST_MESSAGE: the pipe's default message, its first
FIRST_MESSAGE(pipe) == 1

\* Pipe::LAST_MESSAGE: the message process_msg has just ended
LAST_MESSAGE(pipe) == Len(pipe.msgs)

\* Pipe::read_all(msg): the unread bytes of that message, which it drains
read_all(pipe, msg) ==
    [value |-> pipe.msgs[msg], pipe |-> [pipe EXCEPT !.msgs[msg] = <<>>]]

----------------------------------------------------------------------------
(* The dedicated engines (rc4.cpp, chacha.cpp). *)

RC4New(key, iv) == [seed |-> Seed(key \o iv), pos |-> 0]

RC4Update(e, data) ==
    [engine |-> [e EXCEPT !.pos = @ + Len(data)],
     value |-> [i \in 1 .. Len(data) |-> Xor(data[i], KS(e.seed, e.pos + i - 1))]]

ChaChaNew(key, iv) == [seed |-> Seed(key) + 3 * Seed(iv), pos |-> 0]

ChaChaUpdate(e, data) ==
    [engine |-> [e EXCEPT !.pos = @ + Len(data)],
     value |-> [i \in 1 .. Len(data) |-> Xor(data[i], KS(e.seed + 1, e.pos + i - 1))]]

----------------------------------------------------------------------------
(* The Cipher class. *)

NoEngine == [null |-> TRUE]

\* variant of Backend: the ChaCha branch compiled into every build
Backend_everyBuild(b2, method) ==
    IF find(method, "rc4") THEN "rc4"
    ELSE IF find(method, "chacha20") THEN "chacha"
    ELSE "pipe"

\* the branch the constructor takes for a method name
Backend(b2, method) ==
    IF find(method, "rc4") THEN "rc4"
    ELSE IF ~b2 /\ find(method, "chacha20") THEN "chacha"
    ELSE "pipe"

\* variant of NeedsKdf: the helpers created for every generic-pipe instance
NeedsKdf_always(b2, info) == b2

\* whether the constructor creates SHA-1, HMAC and HKDF
NeedsKdf(b2, info) == b2 /\ info.type = "AEAD"

\* variant of Direction: the encrypt flag ignored
Direction_fixed(encrypt) == "ENCRYPTION"

\* the direction handed to the provider
Direction(encrypt) == IF encrypt THEN "ENCRYPTION" ELSE "DECRYPTION"

\* the members after the initialiser list
Members(key, iv, info) ==
    [key |-> key, iv |-> iv, cipherInfo |-> info,
     rc4 |-> NoEngine, chacha |-> NoEngine, pipe |-> NoEngine,
     msgHashFunc |-> FALSE, msgAuthCode |-> FALSE, kdf |-> FALSE]

\* rc4.reset(new RC4(key, iv))
SetRC4(m, key, iv) == [m EXCEPT !.rc4 = RC4New(key, iv)]

\* chacha.reset(new ChaCha(key, iv))
SetChaCha(m, key, iv) == [m EXCEPT !.chacha = ChaChaNew(key, iv)]

\* variant of SetPipe: the pipe built and never stored
SetPipe_lost(m, filter) == m

\* pipe.reset(new Botan::Pipe(filter))
SetPipe(m, filter) == [m EXCEPT !.pipe = PipeNew(filter)]

\* Cipher::Cipher.  outcome "ok": obj is the instance; "throw": the registry
\* lookup threw std::out_of_range; "abort": the provider raised and qFatal
\* ended the process.  consulted: the provider was asked for a filter;
\* helpers: the AEAD helpers were created on the way.
Ctor(map, b2, prov, method, key, iv, encrypt) ==
    LET l == at(map, method)
        m == Members(key, iv, l.info)
        h == NeedsKdf(b2, at(map, method).info)
        mk == [m EXCEPT !.msgHashFunc = h, !.msgAuthCode = h, !.kdf = h]
        g == get_cipher(prov, l.info.internalName, key, iv, Direction(encrypt))
    IN  IF ~l.found
        THEN [outcome |-> "throw", error |-> "UnknownMethod", obj |-> NoCipher,
              consulted |-> FALSE, helpers |-> FALSE]
        ELSE IF Backend(b2, method) = "rc4"
        THEN [outcome |-> "ok", error |-> "", obj |-> SetRC4(m, key, iv),
              consulted |-> FALSE, helpers |-> FALSE]
        ELSE IF Backend(b2, method) = "chacha"
        THEN [outcome |-> "ok", error |-> "", obj |-> SetChaCha(m, key, iv),
              consulted |-> FALSE, helpers |-> FALSE]
        ELSE IF g.raised
        THEN [outcome |-> "abort", error |-> "ProviderError", obj |-> NoCipher,
              consulted |-> TRUE, helpers |-> h]
        ELSE [outcome |-> "ok", error |-> "", obj |-> SetPipe(mk, g.filter),
              consulted |-> TRUE, helpers |-> h]

\* Cipher::update.  raises: the provider raises while processing the message
\* (an AEAD filter may: it frames and authenticates each message).
update(c, data, raises) ==
    IF c.chacha # NoEngine
    THEN LET r == ChaChaUpdate(c.chacha, data)
         IN [outcome |-> "return", error |-> "", value |-> r.value,
             obj |-> [c EXCEPT !.chacha = r.engine]]
    ELSE IF c.rc4 # NoEngine
    THEN LET r == RC4Update(c.rc4, data)
         IN [outcome |-> "return", error |-> "", value |-> r.value,
             obj |-> [c EXCEPT !.rc4 = r.engine]]
    ELSE IF c.pipe # NoEngine
    THEN IF raises
         THEN [outcome |-> "throw", error |-> "ProviderError", value |-> <<>>, obj |-> c]
         ELSE LET p == process_msg(c.pipe, data)
                  r == read_all(p, LAST_MESSAGE(p))
              IN [outcome |-> "return", error |-> "", value |-> r.value,
                  obj |-> [c EXCEPT !.pipe = r.pipe]]
    ELSE [outcome |-> "throw", error |-> "BackendUninitialised", value |-> <<>>, obj |-> c]

\* whether the provider may raise in update: only an AEAD filter
MayRaise(c) == c.pipe # NoEngine /\ c.pipe.filter.kind = "AEAD"

\* variant of getIV: the wrong member returned
getIV_key(c) == c.key

\* Cipher::getIV
getIV(c) == c.iv

\* Cipher::randomIv(int): fill stands for what the RNG draws
randomIv(length, fill) ==
    IF length = 0 THEN [value |-> <<>>, rng |-> FALSE]
    ELSE [value |-> [i \in 1 .. length |-> fill], rng |-> TRUE]

\* Cipher::randomIv(const std::string &)
randomIvOf(map, method, fill) ==
    LET l == at(map, method)
        r == randomIv(l.info.ivLen, fill)
    IN  IF ~l.found
        THEN [outcome |-> "throw", error |-> "UnknownMethod", value |-> <<>>, rng |-> FALSE]
        ELSE [outcome |-> "return", error |-> "", value |-> r.value, rng |-> r.rng]

\* variant of isSupported: the "rc4" test inverted
isSupported_inverted(b2, prov, method) ==
    IF ~b2 /\ find(method, "chacha20")
    THEN [outcome |-> "return", value |-> TRUE, consulted |-> FALSE]
    ELSE IF find(method, "rc4")
    THEN IF get_cipher_unkeyed(prov, method).raised
         THEN [outcome |-> "return", value |-> FALSE, consulted |-> TRUE]
         ELSE [outcome |-> "return", value |-> TRUE, consulted |-> TRUE]
    ELSE [outcome |-> "return", value |-> TRUE, consulted |-> FALSE]

\* Cipher::isSupported.  consulted: the provider was asked for a filter.
isSupported(b2, prov, method) ==
    IF ~b2 /\ find(method, "chacha20")
    THEN [outcome |-> "return", value |-> TRUE, consulted |-> FALSE]
    ELSE IF ~find(method, "rc4")
    THEN IF get_cipher_unkeyed(prov, method).raised
         THEN [outcome |-> "return", value |-> FALSE, consulted |-> TRUE]
         ELSE [outcome |-> "return", value |-> TRUE, consulted |-> TRUE]
    ELSE [outcome |-> "return", value |-> TRUE, consulted |-> FALSE]

\* the name supportedMethods probes for a row
ProbedName(row) == row.info.internalName

\* Cipher::supportedMethods: the user names, in registry order
RECURSIVE supportedFrom(_, _, _, _)
supportedFrom(map, b2, prov, i) ==
    IF i > Len(map) THEN <<>>
    ELSE (IF isSupported(b2, prov, ProbedName(map[i])).value THEN <<map[i].name>> ELSE <<>>)
             \o supportedFrom(map, b2, prov, i + 1)

supportedMethods(map, b2, prov) == supportedFrom(map, b2, prov, 1)

\* HKDF::derive_key stand-in: keyLen bytes drawn from key, salt and label
derive_key(keyLen, key, salt) ==
    LET prk == Seed(key) + Seed(salt)
    IN  [i \in 1 .. keyLen |-> (prk + i) % ByteMod]

\* what kdf->derive_key can do when kdf is empty (undefined behaviour): the
\* process is killed at the null dereference, or the call returns keyLen
\* bytes of no particular value
NullDeref ==
    {[crash |-> TRUE, junk |-> 0]} \cup {[crash |-> FALSE, junk |-> j] : j \in Draws}

\* Cipher::deriveSubkey (USE_BOTAN2 only).  Q_ASSERT(kdf) ends the process
\* when the HKDF is missing, unless QT_NO_DEBUG compiled the assertion out:
\* then the salt is drawn and derive_key is called through the empty pointer
deriveSubkey(c, fill, nodebug, ub) ==
    LET salt == randomIv(c.cipherInfo.saltLen, fill)
    IN  IF ~c.kdf /\ ~nodebug
        THEN [outcome |-> "abort", error |-> "AssertKdf", value |-> <<>>, rng |-> FALSE]
        ELSE IF ~c.kdf
        THEN IF ub.crash
             THEN [outcome |-> "crash", error |-> "NullKdf", value |-> <<>>,
                   rng |-> salt.rng]
             ELSE [outcome |-> "return", error |-> "",
                   value |-> Filled(c.cipherInfo.keyLen, ub.junk), rng |-> salt.rng]
        ELSE [outcome |-> "return", error |-> "",
              value |-> derive_key(c.cipherInfo.keyLen, c.key, salt.value), rng |-> salt.rng]


----------------------------------------------------------------------------
(* The client: what it passes in. *)

\* method names a client tries: every name some build registers, a name no
\* build registers, and an unregistered name that contains "rc4"
MethodInputs == RegisteredNames(CipherInfoMapOf(TRUE)) \cup {"bogus-cipher", "rc4"}

\* key lengths tried for a method: the registered one, one byte short, and,
\* where the provider's algorithm takes no key of the registered length, the
\* lengths it does take
KeyLenInputs(map, method) ==
    LET info == at(map, method).info
        lens == ProviderAlgo(info.internalName).keyLens
    IN  IF at(map, method).found
        THEN {info.keyLen, info.keyLen - 1} \cup (IF info.keyLen \in lens THEN {} ELSE lens)
        ELSE {16}

\* IV lengths tried for a method: the registered one and one byte short
IvLenInputs(map, method) ==
    IF at(map, method).found
    THEN {at(map, method).info.ivLen, at(map, method).info.ivLen - 1}
    ELSE {16}

\* names passed to isSupported: internal names, user names, an unknown name
ProbeInputs == InternalNames \cup MethodInputs

\* no instance yet, nothing called
Fresh ==
    /\ cipher = NoCipher
    /\ peer = NoCipher
    /\ args = NoArgs
    /\ fed = <<>>
    /\ out = <<>>
    /\ echo = <<>>
    /\ calls = 0
    /\ last = Result("none", "return", "", <<>>, <<>>, FALSE, FALSE, FALSE)
    /\ aborted = FALSE

\* every build, against the provider the instance-building runs use
Init ==
    /\ botan2 \in BOOLEAN
    /\ noDebug \in BOOLEAN
    /\ provided \in BuildProfiles(botan2)
    /\ Fresh

\* every build, against each provider
InitStatic ==
    /\ botan2 \in BOOLEAN
    /\ noDebug \in BOOLEAN
    /\ provided \in Profiles(botan2)
    /\ Fresh

\* new Cipher(method, key, iv, encrypt)
Construct(method, klen, ivlen, encrypt) ==
    LET a == [method |-> method, key |-> Filled(klen, 0), iv |-> Filled(ivlen, 0),
              encrypt |-> encrypt]
        r == Ctor(cipherInfoMap, botan2, provided, method, a.key, a.iv, encrypt)
    IN  /\ ~aborted
        /\ cipher = NoCipher
        /\ cipher' = r.obj
        /\ args' = IF r.outcome = "ok" THEN a ELSE NoArgs
        /\ aborted' = (r.outcome = "abort")
        /\ last' = Result("Cipher", r.outcome, r.error, <<>>, a, r.consulted, r.helpers, FALSE)
        /\ fed' = <<>> /\ out' = <<>> /\ calls' = 0
        /\ UNCHANGED <<botan2, noDebug, provided, peer, echo>>

\* delete cipher
Destroy ==
    /\ ~aborted
    /\ cipher # NoCipher
    /\ cipher' = NoCipher
    /\ args' = NoArgs
    /\ fed' = <<>> /\ out' = <<>> /\ calls' = 0
    /\ last' = Result("~Cipher", "return", "", <<>>, <<>>, FALSE, FALSE, FALSE)
    /\ UNCHANGED <<botan2, noDebug, provided, peer, echo, aborted>>

\* cipher->update(data); what it returns goes to the end of `out`
Update(data, raises) ==
    LET r == update(cipher, data, raises)
    IN  /\ ~aborted
        /\ cipher # NoCipher
        /\ calls < MaxUpdates
        /\ Len(fed) + Len(data) <= MaxFed
        /\ raises => MayRaise(cipher)
        /\ cipher' = r.obj
        /\ calls' = calls + 1
        /\ fed' = IF r.outcome = "return" THEN fed \o data ELSE fed
        /\ out' = IF r.outcome = "return" THEN out \o r.value ELSE out
        /\ last' = Result("update", r.outcome, r.error, <<>>, Len(data), FALSE, FALSE, FALSE)
        /\ UNCHANGED <<botan2, noDebug, provided, peer, args, echo, aborted>>

\* cipher->getIV()
GetIV ==
    /\ ~aborted
    /\ cipher # NoCipher
    /\ last' = Result("getIV", "return", "", getIV(cipher), <<>>, FALSE, FALSE, FALSE)
    /\ UNCHANGED <<botan2, noDebug, provided, cipher, peer, args, fed, out, echo,
                   calls, aborted>>

\* cipher->deriveSubkey(), which only a USE_BOTAN2 build has; ub is what the
\* call through the empty kdf pointer does when nothing stopped it before
DeriveSubkey(fill, ub) ==
    LET r == deriveSubkey(cipher, fill, noDebug, ub)
    IN  /\ ~aborted
        /\ botan2
        /\ cipher # NoCipher
        /\ aborted' = (r.outcome \in {"abort", "crash"})
        /\ last' = Result("deriveSubkey", r.outcome, r.error, r.value, <<>>, FALSE, FALSE, r.rng)
        /\ UNCHANGED <<botan2, noDebug, provided, cipher, peer, args, fed, out, echo,
                       calls>>

\* Cipher::randomIv(method)
RandomIvOf(method, fill) ==
    LET r == randomIvOf(cipherInfoMap, method, fill)
    IN  /\ ~aborted
        /\ last' = Result("randomIvOf", r.outcome, r.error, r.value, method, FALSE, FALSE, r.rng)
        /\ UNCHANGED <<botan2, noDebug, provided, cipher, peer, args, fed, out, echo,
                       calls, aborted>>

\* Cipher::randomIv(length)
RandomIv(length, fill) ==
    LET r == randomIv(length, fill)
    IN  /\ ~aborted
        /\ last' = Result("randomIv", "return", "", r.value, length, FALSE, FALSE, r.rng)
        /\ UNCHANGED <<botan2, noDebug, provided, cipher, peer, args, fed, out, echo,
                       calls, aborted>>

\* Cipher::isSupported(name)
IsSupported(name) ==
    LET r == isSupported(botan2, provided, name)
    IN  /\ ~aborted
        /\ last' = Result("isSupported", r.outcome, "", r.value, name, r.consulted, FALSE, FALSE)
        /\ UNCHANGED <<botan2, noDebug, provided, cipher, peer, args, fed, out, echo,
                       calls, aborted>>

\* Cipher::supportedMethods()
SupportedMethods ==
    /\ ~aborted
    /\ last' = Result("supportedMethods", "return", "",
                      supportedMethods(cipherInfoMap, botan2, provided), <<>>,
                      TRUE, FALSE, FALSE)
    /\ UNCHANGED <<botan2, noDebug, provided, cipher, peer, args, fed, out, echo,
                   calls, aborted>>

\* an encryptor and a decryptor built from the same (method, key, iv)
ConstructPair(method, klen, ivlen) ==
    LET a == [method |-> method, key |-> Filled(klen, 0), iv |-> Filled(ivlen, 0),
              encrypt |-> TRUE]
        e == Ctor(cipherInfoMap, botan2, provided, method, a.key, a.iv, TRUE)
        d == Ctor(cipherInfoMap, botan2, provided, method, a.key, a.iv, FALSE)
        r == IF e.outcome = "ok" THEN d ELSE e
    IN  /\ ~aborted
        /\ cipher = NoCipher /\ peer = NoCipher
        /\ cipher' = IF r.outcome = "ok" THEN e.obj ELSE NoCipher
        /\ peer' = IF r.outcome = "ok" THEN d.obj ELSE NoCipher
        /\ args' = IF r.outcome = "ok" THEN a ELSE NoArgs
        /\ aborted' = (r.outcome = "abort")
        /\ last' = Result("Cipher", r.outcome, r.error, <<>>, a, r.consulted, r.helpers, FALSE)
        /\ fed' = <<>> /\ out' = <<>> /\ echo' = <<>> /\ calls' = 0
        /\ UNCHANGED <<botan2, noDebug, provided>>

\* delete both ends
DestroyPair ==
    /\ ~aborted
    /\ cipher # NoCipher /\ peer # NoCipher
    /\ cipher' = NoCipher /\ peer' = NoCipher
    /\ args' = NoArgs
    /\ fed' = <<>> /\ out' = <<>> /\ echo' = <<>> /\ calls' = 0
    /\ last' = Result("~Cipher", "return", "", <<>>, <<>>, FALSE, FALSE, FALSE)
    /\ UNCHANGED <<botan2, noDebug, provided, aborted>>

\* peer->update(cipher->update(p))
Relay(p, raises) ==
    LET e == update(cipher, p, raises)
        d == update(peer, e.value, raises)
        r == IF e.outcome = "return" THEN d ELSE e
    IN  /\ ~aborted
        /\ cipher # NoCipher /\ peer # NoCipher
        /\ calls < MaxUpdates
        /\ Len(fed) + Len(p) <= MaxFed
        /\ raises => MayRaise(cipher)
        /\ cipher' = e.obj
        /\ peer' = IF e.outcome = "return" THEN d.obj ELSE peer
        /\ calls' = calls + 1
        /\ fed' = IF r.outcome = "return" THEN fed \o p ELSE fed
        /\ out' = IF r.outcome = "return" THEN out \o e.value ELSE out
        /\ echo' = IF r.outcome = "return" THEN echo \o d.value ELSE echo
        /\ last' = Result("relay", r.outcome, r.error, r.value, p, FALSE, FALSE, FALSE)
        /\ UNCHANGED <<botan2, noDebug, provided, args, aborted>>

Next ==
    \/ /\ cipher = NoCipher
       /\ \E method \in MethodInputs, encrypt \in BOOLEAN :
            \E klen \in KeyLenInputs(cipherInfoMap, method),
               ivlen \in IvLenInputs(cipherInfoMap, method) :
                 Construct(method, klen, ivlen, encrypt)
    \/ Destroy
    \/ /\ cipher # NoCipher
       /\ \E data \in Bytes(MaxFed - Len(fed)), raises \in BOOLEAN : Update(data, raises)
    \/ GetIV
    \/ \E fill \in Draws, ub \in NullDeref : DeriveSubkey(fill, ub)

Spec == Init /\ [][Next]_vars

\* the static helpers, which need no instance
NextStatic ==
    \/ \E name \in ProbeInputs : IsSupported(name)
    \/ SupportedMethods
    \/ \E length \in {0, 8, 12, 16}, fill \in Draws : RandomIv(length, fill)

SpecStatic == InitStatic /\ [][NextStatic]_vars

\* two ends of a connection: one encrypts, the other decrypts what it got
NextRelay ==
    \/ \E method \in MethodInputs :
         \E klen \in KeyLenInputs(cipherInfoMap, method),
            ivlen \in IvLenInputs(cipherInfoMap, method) :
              ConstructPair(method, klen, ivlen)
    \/ DestroyPair
    \/ \E p \in Bytes(MaxFed), raises \in BOOLEAN : Relay(p, raises)

\* the registry lookup at work: construction and randomIv(method)
NextLookup ==
    \/ /\ cipher = NoCipher
       /\ \E method \in MethodInputs, encrypt \in BOOLEAN :
            \E klen \in KeyLenInputs(cipherInfoMap, method),
               ivlen \in IvLenInputs(cipherInfoMap, method) :
                 Construct(method, klen, ivlen, encrypt)
    \/ Destroy
    \/ \E method \in MethodInputs, fill \in Draws : RandomIvOf(method, fill)

SpecLookup == Init /\ [][NextLookup]_vars

SpecRelay == Init /\ [][NextRelay]_vars

----------------------------------------------------------------------------
(* Properties. *)

\* the backends an instance has initialised
Backends(c) == {b \in {"rc4", "chacha", "pipe"} : c[b] # NoEngine}

\* s starts with the characters of prefix
StartsWith(s, prefix) == MatchesAt(Chars(s), Chars(prefix), 1)

\* elements of a sequence
Range(s) == {s[i] : i \in DOMAIN s}

\* a registered method with a key or an IV of another length than registered
WrongLength(a) ==
    /\ at(cipherInfoMap, a.method).found
    /\ \/ Len(a.key) # at(cipherInfoMap, a.method).info.keyLen
       \/ Len(a.iv) # at(cipherInfoMap, a.method).info.ivLen

\* C1: every constructed instance, after any updates, has exactly one of the
\* three backends initialised, and update never ends in its
\* all-uninitialised branch.
C1_ExactlyOneBackend ==
    /\ cipher # NoCipher => Cardinality(Backends(cipher)) = 1
    /\ last.error # "BackendUninitialised"

C1_Witness ==
    /\ cipher # NoCipher
    /\ cipher.pipe # NoEngine
    /\ calls = 2
    /\ last.op = "update" /\ last.outcome = "return"

\* C2: the backend is the RC4 engine for "rc4-md5", the ChaCha engine for
\* "chacha20" and "chacha20-ietf" in a build without native ChaCha, and for
\* every other registered method the generic pipe around the filter the
\* provider builds for the row's internalName.
C2_Dispatch ==
    cipher # NoCipher =>
        LET info == at(cipherInfoMap, args.method).info IN
        IF args.method = "rc4-md5"
        THEN Backends(cipher) = {"rc4"}
        ELSE IF ~botan2 /\ args.method \in {"chacha20", "chacha20-ietf"}
        THEN Backends(cipher) = {"chacha"}
        ELSE /\ Backends(cipher) = {"pipe"}
             /\ info.internalName \in provided
             /\ cipher.pipe.filter.kind = ProviderAlgo(info.internalName).kind

C2_Witness ==
    /\ cipher # NoCipher
    /\ ~botan2
    /\ args.method = "chacha20"
    /\ cipher.chacha # NoEngine

\* C3 as claimed: a registered method with a key or an IV of another length
\* than the registered one never constructs; the process ends and the client
\* holds no instance.
C3_WrongLengthIsFatal ==
    (last.op = "Cipher" /\ WrongLength(last.arg)) =>
        (last.outcome = "abort" /\ cipher = NoCipher)

\* C4 as claimed: supportedMethods returns registered names only, with every
\* STREAM row whose internalName the provider supports, every row named
\* rc4..., and in a build without native ChaCha every row named chacha20...
C4_SupportedCoverage ==
    last.op = "supportedMethods" =>
        /\ Range(last.value) \subseteq RegisteredNames(cipherInfoMap)
        /\ \A i \in DOMAIN cipherInfoMap :
             LET row == cipherInfoMap[i] IN
             ( \/ (row.info.type = "STREAM" /\ row.info.internalName \in provided)
               \/ StartsWith(row.name, "rc4")
               \/ (~botan2 /\ StartsWith(row.name, "chacha20")) )
             => row.name \in Range(last.value)

\* what a fresh instance built from the same arguments returns for the whole
\* input in one update call
OneShot ==
    update(Ctor(cipherInfoMap, botan2, provided, args.method, args.key, args.iv,
                args.encrypt).obj, fed, FALSE).value

\* C5: for a STREAM method on any backend, the outputs of the update calls
\* made so far, concatenated, are what one update call on a fresh instance
\* returns for the concatenated inputs.
C5_ChunkedEqualsOneShot ==
    (cipher # NoCipher /\ cipher.cipherInfo.type = "STREAM") => out = OneShot

C5_Witness ==
    /\ cipher # NoCipher
    /\ cipher.cipherInfo.type = "STREAM"
    /\ cipher.pipe # NoEngine
    /\ cipher.pipe.filter.kind = "CFB"
    /\ calls = 2 /\ Len(fed) = 2 /\ last.arg = 1
    /\ out # fed

\* C6: for a STREAM method with a key and an IV of the registered lengths,
\* the decryptor returns the plaintext p for what the encryptor returned
\* for p.
C6_RoundTrip ==
    ( /\ last.op = "relay" /\ last.outcome = "return"
      /\ cipher.cipherInfo.type = "STREAM"
      /\ Len(args.key) = cipher.cipherInfo.keyLen
      /\ Len(args.iv) = cipher.cipherInfo.ivLen )
    => (last.value = last.arg /\ echo = fed)

C6_Witness ==
    /\ last.op = "relay" /\ last.outcome = "return"
    /\ cipher.cipherInfo.type = "STREAM"
    /\ Len(args.key) = cipher.cipherInfo.keyLen
    /\ Len(args.iv) = cipher.cipherInfo.ivLen
    /\ cipher.pipe # NoEngine /\ cipher.pipe.filter.kind = "CFB"
    /\ Len(last.arg) = 2
    /\ out # fed

\* C7: isSupported always returns; it answers true without asking the
\* provider for a name containing "rc4" or, in a build without native
\* ChaCha, "chacha20"; for any other name it asks the provider and answers
\* whether the provider built the filter.
C7_IsSupported ==
    last.op = "isSupported" =>
        /\ last.outcome = "return"
        /\ IF find(last.arg, "rc4") \/ (~botan2 /\ find(last.arg, "chacha20"))
           THEN last.value /\ ~last.consulted
           ELSE last.consulted /\ (last.value <=> last.arg \in provided)
        /\ last.arg = "bogus-cipher" => ~last.value
        /\ last.arg = "AES-256/CFB" => last.value

C7_Witness ==
    /\ last.op = "isSupported"
    /\ last.arg = "bogus-cipher"
    /\ last.consulted /\ ~last.value

\* the method name the last registry-lookup operation was given
LookedUp == IF last.op = "Cipher" THEN last.arg.method ELSE last.arg

\* C8: for a method the registry does not hold, construction and
\* randomIv(method) throw UnknownMethod, with no instance, backend or AEAD
\* helper created, the provider not asked and no random bytes drawn.
C8_UnknownMethod ==
    ( /\ last.op \in {"Cipher", "randomIvOf"}
      /\ LookedUp \notin RegisteredNames(cipherInfoMap) )
    => /\ last.outcome = "throw" /\ last.error = "UnknownMethod"
       /\ ~last.consulted /\ ~last.helpers /\ ~last.rng
       /\ ~aborted
       /\ last.op = "Cipher" => cipher = NoCipher

C8_Witness ==
    /\ last.op = "Cipher"
    /\ last.arg.method = "rc4"
    /\ last.outcome = "throw"

\* C9: whatever update and deriveSubkey calls were made, getIV returns the
\* IV the constructor was given, and the key and the CipherInfo are the ones
\* the constructor bound (the registry row of the method).
C9_Frame ==
    /\ cipher # NoCipher =>
         /\ getIV(cipher) = args.iv
         /\ cipher.key = args.key
         /\ cipher.cipherInfo = at(cipherInfoMap, args.method).info
    /\ (last.op = "getIV" /\ cipher # NoCipher) => last.value = args.iv

C9_Witness ==
    /\ cipher # NoCipher
    /\ calls > 0
    /\ cipher.kdf
    /\ last.op = "deriveSubkey" /\ last.outcome = "return"
    /\ getIV(cipher) # <<>>

\* C10: in a build with HKDF, an instance has the SHA-1, HMAC and HKDF
\* helpers exactly when its registry category is AEAD, so deriveSubkey on an
\* AEAD instance passes its assertion.
C10_KdfIffAead ==
    botan2 =>
        /\ cipher # NoCipher =>
             /\ cipher.kdf <=> cipher.cipherInfo.type = "AEAD"
             /\ cipher.msgHashFunc = cipher.kdf /\ cipher.msgAuthCode = cipher.kdf
        /\ ( /\ last.op = "deriveSubkey"
             /\ cipher # NoCipher /\ cipher.cipherInfo.type = "AEAD" )
           => (last.outcome = "return" /\ Len(last.value) = cipher.cipherInfo.keyLen)

C10_Witness ==
    /\ botan2
    /\ cipher # NoCipher /\ cipher.cipherInfo.type = "AEAD"
    /\ last.op = "deriveSubkey" /\ last.outcome = "return" /\ last.rng
====
